---- MODULE Spec2Model ----
(***************************************************************************)
(* Model of the corsair-link hwmon driver (src/corsair-link.c).            *)
(*                                                                         *)
(* One device session (struct ccp_device): the shared 64-byte buffer, the  *)
(* completion wait_input_report, the mutex, the hwmon registration.        *)
(* Thread 0 is ccp_probe (it reads the device name and registers the hwmon *)
(* device); threads 1..NumCallers are hwmon readers calling ccp_read.  The *)
(* HID core delivers inbound reports to ccp_raw_event, one at a time, on   *)
(* another CPU: its three statements interleave with the readers'.         *)
(*                                                                         *)
(* C arrays are 0-based, so buffers are functions on 0..FrameLen-1.        *)
(* uint32_t / int values are kept as the int with the same 32 bits.        *)
(***************************************************************************)
EXTENDS Integers, Sequences, FiniteSets, TLC

\* ---------------------------------------------------------------- bounds
NumCallers == 2      \* hwmon reader threads
MaxCalls   == 1      \* ccp_read calls per reader
FrameLen   == 5      \* bytes of the 64-byte buffer that are modelled
MaxChannel == 1      \* highest hwmon channel index a reader asks for
MaxFaults  == 1      \* faults of the environment in one run

\* ------------------------------------------------------- program constants
OP_READ      == 3    \* 0x03
OP_WRITE     == 2    \* 0x02
REG_SELECT   == 0    \* 0x00
REG_VIN      == 136  \* 0x88
REG_VOUT     == 139  \* 0x8B
REG_IOUT     == 140  \* 0x8C
REG_TEMP     == 141  \* 0x8D
REG_FAN      == 144  \* 0x90
REG_POUT     == 150  \* 0x96
REG_PIN      == 238  \* 0xEE
REG_NAME     == 254  \* 0xfe
ETIMEDOUT    == 110
EOPNOTSUPP   == 95
EINVAL       == 22
ENODATA      == 61
EIO          == 5
EPIPE        == 32
INT_MAX      == 2147483647

\* frames one session can transmit: the name read, two per sensor read
MaxSerial == 1 + 2 * NumCallers * MaxCalls

Threads == 0..NumCallers
Callers == 1..NumCallers
SingleReader == {1}   \* the reader of a session that only one thread reads
Idx     == 0..(FrameLen - 1)

\* Values the environment supplies.
StatusBytes == {0, 16}          \* status byte of a device reply: 0x00, 0x10
UninitBytes == {0, 165}         \* fill of the devm_kmalloc'ed buffer
TransportErrs == {-EPIPE}       \* negative returns of hid_hw_output_report

\* Inbound reports are [id, st]: id > 0 is the reply to the id-th transmitted
\* frame, id < 0 an unsolicited report.  Every payload byte of a report but
\* byte 3 is Payload(id), so the bytes of a reading name the report they came
\* from.  Byte 3 is Payload3(id): as the high byte of a fixed-point word it
\* gives exponent 1 and a mantissa that is negative for every other reply.
Payload(id) == IF id > 0 THEN 32 + id ELSE 80 - id

Payload3(id) == IF id > 0 /\ id % 2 = 0 THEN 12 ELSE 8

Reports == [id : (-MaxFaults..(-1)) \cup (1..MaxSerial), st : StatusBytes]

Unlocked == -1

NoReport == [id |-> 0, st |-> 0]

ReportBytes(r) ==
  [i \in Idx |-> IF i = 0 THEN r.st ELSE IF i = 3 THEN Payload3(r.id) ELSE Payload(r.id)]

VARIABLES
  buffer,     \* ccp->buffer
  done,       \* ccp->wait_input_report.done
  mutex,      \* ccp->mutex: Unlocked, else the thread holding it
  hwmon_dev,  \* ccp->hwmon_dev: "none", "registered", "error"
  name,       \* char name[] of ccp_probe
  readers,    \* the reader threads that exist
  pc,         \* per thread: position in its code
  op,         \* per thread: the operation [type, ch] being executed
  fi,         \* per thread: index of the frame of the operation being sent
  temp,       \* per thread: the payload bytes <<buffer[2], buffer[3]>> read
  rv,         \* per thread: return value of ccp_read / corsairlink_rmi_name
  val,        \* per thread: *val of ccp_read
  calls,      \* per thread: calls made so far
  tx,         \* per thread, per rmi_send_cmd call of the operation: the
              \* serial of its frame (0: not accepted) and what the call
              \* returned (0: still waiting)
  inq,        \* serials of the replies the device has yet to deliver
  cbpc,       \* position of ccp_raw_event: "idle", "copy", "complete"
  cbdata,     \* the report ccp_raw_event is handling
  serial,     \* frames the transport has accepted
  nstale,     \* unsolicited reports generated so far
  budget,     \* faults the environment may still cause
  timedout,   \* serials of the requests whose wait timed out
  idleStale,  \* ids of unsolicited reports handled wholly while nothing
              \* was outstanding
  word,       \* argument of a call of one of the pure functions
  result,     \* what that call returned
  fn          \* "input" before that call, then the function called

vars == <<buffer, done, mutex, hwmon_dev, name, readers, pc, op, fi, temp, rv,
          val, calls, tx, inq, cbpc, cbdata, serial, nstale, budget, timedout,
          idleStale, word, result, fn>>

shared  == <<buffer, done>>
session == <<mutex, hwmon_dev, name, readers>>
device  == <<inq, cbpc, cbdata, serial, nstale, budget>>
locals  == <<op, fi, temp, rv, val, calls>>
ghosts  == <<timedout, idleStale>>
codec   == <<word, result, fn>>

\* ------------------------------------------------------ 32-bit arithmetic
\* x + y mod 2^32
AddW(x, y) ==
  IF x >= 0 /\ y >= 0 /\ x > INT_MAX - y
    THEN (x - INT_MAX - 1) + (y - INT_MAX - 1)
    ELSE IF x < 0 /\ y < 0 /\ x < (-INT_MAX - 1) - y
      THEN (x + INT_MAX + 1) + (y + INT_MAX + 1)
      ELSE x + y

\* the 32-bit value with high half h and low half l, as an int
Word32(h, l) == IF h >= 32768 THEN (h - 65536) * 65536 + l ELSE h * 65536 + l

\* x * n mod 2^32 for 0 <= n <= 32768, by 16-bit halves
MulW(x, n) ==
  Word32((((((x - (x % 65536)) \div 65536) % 65536) * n)
            + (((x % 65536) * n) \div 65536)) % 65536,
         ((x % 65536) * n) % 65536)

\* unsigned x / d, d > 0
DivU(x, d) ==
  IF x >= 0 THEN x \div d
  ELSE IF d = 1 THEN x
  ELSE LET a == x + INT_MAX + 1
       IN  (a \div d) + (INT_MAX \div d) + (((a % d) + (INT_MAX % d) + 1) \div d)

pow2i(exp) == 2 ^ exp

get_int_from_uint16_double(data) ==
  LET fraction0 == data % 2048
      exponent0 == data \div 2048
      fraction1 == IF fraction0 > 1023 THEN -(2048 - fraction0) ELSE fraction0
      fraction2 == IF fraction1 % 2 = 1 THEN AddW(fraction1, 1) ELSE fraction1
      exponent1 == IF exponent0 > 15 THEN -(32 - exponent0) ELSE exponent0
      result0   == MulW(fraction2, 1000)
  IN  IF exponent1 > 0
        THEN MulW(result0, pow2i(exponent1))
        ELSE DivU(result0, pow2i(-exponent1))

\* ccp_get_errno without "case 0x12:"
ccp_get_errno_no12(b0) ==
  CASE b0 = 0  -> 0
    [] b0 = 1  -> -EOPNOTSUPP
    [] b0 = 16 -> -EINVAL
    [] b0 = 17 -> -ENODATA
    [] OTHER   -> -EIO

\* converts response error in buffer to errno
ccp_get_errno(b0) ==
  CASE b0 = 0  -> 0
    [] b0 = 1  -> -EOPNOTSUPP
    [] b0 = 16 -> -EINVAL
    [] b0 = 17 -> -ENODATA
    [] b0 = 18 -> -ENODATA
    [] OTHER   -> -EIO


\* ------------------------------------------------------------ completion
\* completion_done(): true when the completion is signalled (done != 0)
completion_done(d) == d # 0

\* rmi_send_cmd without "if (!ret) return -ETIMEDOUT"
rmi_send_cmd_ret_unchecked(t) == t

\* value rmi_send_cmd returns after wait_for_completion_timeout returned t
\* (0: timed out, otherwise the time that was left)
rmi_send_cmd_ret(t) == IF t = 0 THEN -ETIMEDOUT ELSE t

\* what wait_for_completion_timeout returns when it finds done = d: the
\* time left (at least 1) when signalled, 0 once the timeout has elapsed
wait_result(d) == IF d > 0 THEN 1 ELSE 0

\* memcpy(ccp->buffer, data, min(IN_BUFFER_SIZE, size)) of a full report
memcpy_report(buf, r) == [i \in Idx |-> ReportBytes(r)[i]]

\* ----------------------------------------------------- register access
\* ccp->buffer[0] = bytes[1]; ccp->buffer[1] = bytes[2]; ...
Store(buf, bytes) ==
  [i \in Idx |-> IF i < Len(bytes) THEN bytes[i + 1] ELSE buf[i]]

\* The frames each operation composes, in order.
rmi_temperature(probe) == << <<OP_READ, (REG_TEMP + probe) % 256, 0, 0>> >>

rmi_fan == << <<OP_READ, REG_FAN, 0, 0>> >>

rmi_voltage(probe) ==
  IF probe = 0
    THEN << <<OP_READ, REG_VIN, 0, 0>> >>
    ELSE << <<OP_WRITE, REG_SELECT, probe - 1>>, <<OP_READ, REG_VOUT, 0, 0>> >>

rmi_power(probe) ==
  IF probe = 0
    THEN << <<OP_READ, REG_PIN, 0, 0>> >>
    ELSE << <<OP_WRITE, REG_SELECT, probe - 1>>, <<OP_READ, REG_POUT, 0, 0>> >>

rmi_current(probe) ==
  << <<OP_WRITE, REG_SELECT, probe>>, <<OP_READ, REG_IOUT, 0, 0>> >>

corsairlink_rmi_name == << <<REG_NAME, OP_READ>> >>

Frames(o) ==
  CASE o.type = "temp"  -> rmi_temperature(o.ch)
    [] o.type = "fan"   -> rmi_fan
    [] o.type = "in"    -> rmi_voltage(o.ch)
    [] o.type = "power" -> rmi_power(o.ch)
    [] o.type = "curr"  -> rmi_current(o.ch)
    [] o.type = "name"  -> corsairlink_rmi_name

\* Is the return value of the k-th rmi_send_cmd of the operation tested
\* (if (ret < 0) return ret)?  Only the last one of a sensor read is.
RetTested(o, k) == o.type # "name" /\ k = Len(Frames(o))

\* The value a sensor read computes from the payload bytes.
Reading(type, b2, b3) ==
  CASE type = "temp"  -> (b2 * 256 + b3) % 65536
    [] type = "fan"   -> b3 * 256 + b2
    [] type = "in"    -> get_int_from_uint16_double(b3 * 256 + b2)
    [] type = "curr"  -> get_int_from_uint16_double(b3 * 256 + b2)
    [] type = "power" -> MulW(get_int_from_uint16_double(b3 * 256 + b2), 1000)

\* channels corsairlink_info registers per sensor type
NumChannels(type) ==
  CASE type = "temp"  -> 2
    [] type = "fan"   -> 1
    [] type = "in"    -> 4
    [] type = "curr"  -> 3
    [] type = "power" -> 4

SensorTypes == {"temp", "fan", "in", "curr", "power"}

Min(a, b) == IF a < b THEN a ELSE b

Channels(type) == 0..Min(MaxChannel, NumChannels(type) - 1)

NoName == [i \in 2..(FrameLen - 1) |-> 0]      \* char name[64] = {0}

NoOp == [type |-> "none", ch |-> 0]
NameOp == [type |-> "name", ch |-> 0]

\* -------------------------------------------------------------- initial
InitWith(rs, faults, words) ==
  /\ buffer \in {[i \in Idx |-> b] : b \in UninitBytes}
  /\ done = 0
  /\ mutex = Unlocked
  /\ hwmon_dev = "none"
  /\ name = NoName
  /\ readers = rs
  /\ pc = [t \in Threads |-> IF t = 0 THEN "compose" ELSE "idle"]
  /\ op = [t \in Threads |-> IF t = 0 THEN NameOp ELSE NoOp]
  /\ fi = [t \in Threads |-> 1]
  /\ temp = [t \in Threads |-> <<>>]
  /\ rv = [t \in Threads |-> 0]
  /\ val = [t \in Threads |-> 0]
  /\ calls = [t \in Threads |-> 0]
  /\ tx = [t \in Threads |-> <<>>]
  /\ inq = <<>>
  /\ cbpc = "idle"
  /\ cbdata = NoReport
  /\ serial = 0
  /\ nstale = 0
  /\ budget = faults
  /\ timedout = {}
  /\ idleStale = {}
  /\ word \in words
  /\ result = 0
  /\ fn = "input"

\* ccp_probe has initialised the session and started device io; it is about
\* to call corsairlink_rmi_name.
Init == InitWith(Callers, MaxFaults, {0})

\* the same session with a single reader thread
InitSingle == InitWith(SingleReader, MaxFaults, {0})

\* ----------------------------------------------------------- environment
\* A fault of the environment: the transport rejects a frame, the device
\* does not answer or answers late, answers with an error status, or sends
\* an unsolicited report.  When the environment causes no fault the reply to
\* a frame is delivered before the timeout of the wait for it elapses.
Fault == budget > 0 /\ budget' = budget - 1

NoFault == budget' = budget

\* serial of the frame thread c handed to the transport last
Sent(c) == IF tx[c] = <<>> THEN 0 ELSE tx[c][Len(tx[c])].ser

\* the reply to the frame thread c transmitted last is still on its way
ReplyPending(c) ==
  \/ \E i \in 1..Len(inq) : inq[i] = Sent(c)
  \/ cbpc # "idle" /\ cbdata.id = Sent(c)

\* --------------------------------------------------------------- readers
Outstanding == \E t \in Threads : pc[t] \in {"wait", "decode"}

\* ccp_read(dev, type, attr = input, channel, val): dispatch to rmi_*
ccp_read(c, type, ch) ==
  /\ c \in readers
  /\ hwmon_dev = "registered"
  /\ pc[c] \in {"idle", "done"}
  /\ calls[c] < MaxCalls
  /\ c > 1 => calls[c - 1] > 0      \* readers are numbered by their first call
  /\ pc' = [pc EXCEPT ![c] = "compose"]
  /\ op' = [op EXCEPT ![c] = [type |-> type, ch |-> ch]]
  /\ fi' = [fi EXCEPT ![c] = 1]
  /\ temp' = [temp EXCEPT ![c] = <<>>]
  /\ rv' = [rv EXCEPT ![c] = 0]
  /\ val' = [val EXCEPT ![c] = 0]
  /\ calls' = [calls EXCEPT ![c] = @ + 1]
  /\ tx' = [tx EXCEPT ![c] = <<>>]
  /\ UNCHANGED <<codec, shared, session, device, ghosts>>

\* the stores ccp->buffer[0..] = ... that compose the next frame
compose(c) ==
  /\ pc[c] = "compose"
  /\ buffer' = Store(buffer, Frames(op[c])[fi[c]])
  /\ pc' = [pc EXCEPT ![c] = "reinit"]
  /\ UNCHANGED <<codec, done, session, device, locals, tx, ghosts>>

\* rmi_send_cmd: reinit_completion(&ccp->wait_input_report)
reinit_completion(c) ==
  /\ pc[c] = "reinit"
  /\ done' = 0
  /\ pc' = [pc EXCEPT ![c] = "output"]
  /\ UNCHANGED <<codec, buffer, session, device, locals, tx, ghosts>>

\* Where a thread continues once rmi_send_cmd has returned r.
AfterSend(c, r) ==
  IF fi[c] < Len(Frames(op[c]))
    THEN /\ pc' = [pc EXCEPT ![c] = "compose"]
         /\ fi' = [fi EXCEPT ![c] = @ + 1]
         /\ rv' = rv
    ELSE IF RetTested(op[c], fi[c]) /\ r < 0
      THEN /\ pc' = [pc EXCEPT ![c] = "done"]
           /\ fi' = fi
           /\ rv' = [rv EXCEPT ![c] = r]
      ELSE /\ pc' = [pc EXCEPT ![c] = "decode"]
           /\ fi' = fi
           /\ rv' = rv

\* rmi_send_cmd: ret = hid_hw_output_report(...); if (ret < 0) return ret;
hid_hw_output_report_fail(c) ==
  /\ pc[c] = "output"
  /\ \E e \in TransportErrs :
       /\ tx' = [tx EXCEPT ![c] = Append(@, [ser |-> 0, res |-> e])]
       /\ AfterSend(c, e)
  /\ Fault
  /\ UNCHANGED <<codec, shared, session, inq, cbpc, cbdata, serial, nstale, op, temp,
                 val, calls, ghosts>>

\* rmi_send_cmd: hid_hw_output_report accepts the buffer; the device will
\* answer with some status, or never
hid_hw_output_report_ok(c) ==
  /\ pc[c] = "output"
  /\ serial' = serial + 1
  /\ \/ inq' = Append(inq, serial + 1) /\ NoFault
     \/ inq' = inq /\ Fault
  /\ tx' = [tx EXCEPT ![c] = Append(@, [ser |-> serial + 1, res |-> 0])]
  /\ pc' = [pc EXCEPT ![c] = "wait"]
  /\ idleStale' = IF cbpc # "idle" THEN idleStale \ {cbdata.id} ELSE idleStale
  /\ UNCHANGED <<codec, shared, session, cbpc, cbdata, nstale, op, temp, val, calls, fi,
                 rv, timedout>>

\* a wait without a timeout: wait_for_completion(&ccp->wait_input_report)
wait_for_completion(c) ==
  /\ pc[c] = "wait"
  /\ done > 0
  /\ done' = done - 1
  /\ tx' = [tx EXCEPT ![c][Len(tx[c])].res = 1]
  /\ AfterSend(c, 1)
  /\ UNCHANGED <<codec, buffer, session, device, op, temp, val, calls, ghosts>>

\* rmi_send_cmd: ret = wait_for_completion_timeout(...); if (!ret) return
\* -ETIMEDOUT; return ret.  The wait ends when done > 0 (it takes the
\* signal) or when the timeout has elapsed without one.
wait_for_completion_timeout(c) ==
  /\ pc[c] = "wait"
  /\ LET r == rmi_send_cmd_ret(wait_result(done))
         k == Len(tx[c])
     IN  /\ done' = IF done > 0 THEN done - 1 ELSE done
         /\ tx' = [tx EXCEPT ![c][k].res = r]
         /\ timedout' = IF done > 0 THEN timedout ELSE timedout \cup {tx[c][k].ser}
         /\ AfterSend(c, r)
  /\ IF done = 0 /\ ReplyPending(c) THEN Fault ELSE NoFault
  /\ UNCHANGED <<codec, buffer, session, inq, cbpc, cbdata, serial, nstale, op, temp,
                 val, calls, idleStale>>

\* rmi_*: temp = buffer[2], buffer[3]; return the reading; then ccp_read:
\* if (ret < 0) return ret; *val = ret; return 0;
decode(c) ==
  /\ pc[c] = "decode"
  /\ op[c].type \in SensorTypes
  /\ LET ret == Reading(op[c].type, buffer[2], buffer[3])
     IN  /\ temp' = [temp EXCEPT ![c] = <<buffer[2], buffer[3]>>]
         /\ rv' = [rv EXCEPT ![c] = IF ret < 0 THEN ret ELSE 0]
         /\ val' = [val EXCEPT ![c] = IF ret < 0 THEN @ ELSE ret]
  /\ pc' = [pc EXCEPT ![c] = "done"]
  /\ UNCHANGED <<codec, shared, session, device, op, fi, calls, tx, ghosts>>

\* ---------------------------------------------------------------- probe
\* corsairlink_rmi_name: memcpy(name, ccp->buffer + 2, 16); return 0;
rmi_name_copy ==
  /\ pc[0] = "decode"
  /\ op[0].type = "name"
  /\ name' = [i \in 2..(FrameLen - 1) |-> buffer[i]]
  /\ rv' = [rv EXCEPT ![0] = 0]
  /\ pc' = [pc EXCEPT ![0] = "register"]
  /\ UNCHANGED <<codec, shared, mutex, hwmon_dev, readers, device, op, fi, temp, val,
                 calls, tx, ghosts>>

\* ccp_probe: if (ret) goto out_hw_close; hwmon_device_register_with_info;
\* return (name goes out of scope)
hwmon_register ==
  /\ pc[0] = "register"
  /\ IF rv[0] # 0
       THEN hwmon_dev' = "error"
       ELSE hwmon_dev' \in {"registered", "error"}
  /\ pc' = [pc EXCEPT ![0] = "done"]
  /\ name' = NoName
  /\ UNCHANGED <<codec, shared, mutex, readers, device, locals, tx, ghosts>>

\* ------------------------------------------------------ inbound reports
\* The report the HID core hands to ccp_raw_event next: the oldest reply not
\* yet delivered, or an unsolicited report that another user of the device
\* (hidraw) made it send.
ccp_raw_event_enter(r) ==
  /\ cbpc = "idle"
  /\ hwmon_dev # "error"
  /\ \/ r.id > 0 /\ inq # <<>> /\ r.id = Head(inq) /\ inq' = Tail(inq) /\ nstale' = nstale
          /\ IF r.st # 0 THEN Fault ELSE NoFault
     \/ r.id < 0 /\ r.id = -(nstale + 1) /\ r.st = 0
          /\ nstale' = nstale + 1 /\ inq' = inq /\ Fault
  \* if (completion_done(&ccp->wait_input_report)) return 0;
  /\ IF completion_done(done)
       THEN UNCHANGED <<cbpc, cbdata>>
       ELSE cbpc' = "copy" /\ cbdata' = r
  /\ idleStale' = IF r.id < 0 /\ ~Outstanding
                    THEN idleStale \cup {r.id} ELSE idleStale
  /\ UNCHANGED <<codec, shared, session, serial, pc, locals, tx, timedout>>

\* ccp_raw_event: memcpy(ccp->buffer, data, min(IN_BUFFER_SIZE, size))
ccp_raw_event_copy ==
  /\ cbpc = "copy"
  /\ buffer' = memcpy_report(buffer, cbdata)
  /\ cbpc' = "complete"
  /\ UNCHANGED <<codec, done, session, inq, cbdata, serial, nstale, budget, pc, locals,
                 tx, ghosts>>

\* ccp_raw_event: complete(&ccp->wait_input_report)
ccp_raw_event_complete ==
  /\ cbpc = "complete"
  /\ done' = done + 1
  /\ cbpc' = "idle"
  /\ cbdata' = NoReport
  /\ UNCHANGED <<codec, buffer, session, inq, serial, nstale, budget, pc, locals, tx,
                 ghosts>>

\* ------------------------------------------------------- specification
ThreadStep(c) ==
  \/ compose(c)
  \/ reinit_completion(c)
  \/ hid_hw_output_report_fail(c)
  \/ hid_hw_output_report_ok(c)
  \/ wait_for_completion_timeout(c)
  \/ decode(c)

Next ==
  \/ \E c \in Callers, type \in SensorTypes :
       \E ch \in Channels(type) : ccp_read(c, type, ch)
  \/ \E c \in Threads : compose(c)
  \/ \E c \in Threads : reinit_completion(c)
  \/ \E c \in Threads : hid_hw_output_report_fail(c)
  \/ \E c \in Threads : hid_hw_output_report_ok(c)
  \/ \E c \in Threads : wait_for_completion_timeout(c)
  \/ \E c \in Threads : decode(c)
  \/ rmi_name_copy
  \/ hwmon_register
  \/ \E r \in Reports : ccp_raw_event_enter(r)
  \/ ccp_raw_event_copy
  \/ ccp_raw_event_complete

Spec == Init /\ [][Next]_vars

SpecSingle == InitSingle /\ [][Next]_vars

\* ------------------------------------------------------ pure functions
Words == 0..65535        \* uint16_t
ByteValues == 0..255     \* u8

\* a call get_int_from_uint16_double(word)
call_get_int_from_uint16_double ==
  /\ fn = "input"
  /\ result' = get_int_from_uint16_double(word)
  /\ fn' = "codec"
  /\ UNCHANGED <<word, shared, session, device, pc, locals, tx, ghosts>>

\* a call ccp_get_errno(ccp) with ccp->buffer[0] = word
call_ccp_get_errno ==
  /\ fn = "input"
  /\ word \in ByteValues
  /\ result' = ccp_get_errno(word)
  /\ fn' = "errno"
  /\ UNCHANGED <<word, shared, session, device, pc, locals, tx, ghosts>>

InitPure == InitWith({}, 0, Words)

NextPure ==
  \/ call_get_int_from_uint16_double
  \/ call_ccp_get_errno

\* the pure functions of the driver, each called once on any argument
SpecPure == InitPure /\ [][NextPure]_vars

\* the report handler, run by the HID core for every report received
RawEventStep ==
  \/ \E r \in Reports : r.id > 0 /\ ccp_raw_event_enter(r)
  \/ ccp_raw_event_copy
  \/ ccp_raw_event_complete

\* The scheduler runs every thread that can take a step, a timed wait ends
\* once its timeout has elapsed, and the HID core hands every report it
\* received to the handler.
FairSingle ==
  SpecSingle /\ WF_vars(RawEventStep) /\ \A c \in SingleReader : WF_vars(ThreadStep(c))

\* ================================================================ claims
Bytes(t) == {t[i] : i \in 1..Len(t)}

\* the first Len(bytes) bytes of buf are bytes
FrameIs(buf, bytes) == \A i \in 0..(Len(bytes) - 1) : buf[i] = bytes[i + 1]

\* the payload bytes of the reply to the frame thread c transmitted last
OwnPayload(c) == <<Payload(Sent(c)), Payload3(Sent(c))>>

\* C1: with any number of concurrent readers at most one request is in
\* flight at a time, and no reader decodes the reply to another reader's
\* request.
C1_OneInFlight ==
  /\ Cardinality({c \in Threads : pc[c] = "wait"}) <= 1
  /\ \A c \in Callers, d \in Callers :
       (c # d /\ temp[c] # <<>> /\ Sent(d) # 0) => Payload(Sent(d)) \notin Bytes(temp[c])

\* C2: the payload a request decodes is never the payload of the reply to
\* an earlier request that timed out.
C2_NoLateReply ==
  \A c \in Threads :
    temp[c] # <<>> =>
      \A n \in timedout : n # Sent(c) => Payload(n) \notin Bytes(temp[c])

\* C3: no byte of an unsolicited report that ccp_raw_event handled while no
\* request was outstanding appears in the payload a later request decodes.
C3_NoStaleReply ==
  \A c \in Threads :
    temp[c] # <<>> => \A k \in idleStale : Payload(k) \notin Bytes(temp[c])

\* C4: an rmi_send_cmd call whose wait timed out returns -ETIMEDOUT, a read
\* whose last frame timed out returns -ETIMEDOUT, and no thread holds the
\* mutex once rmi_send_cmd has returned.
C4_TimeoutReleases ==
  \A c \in Threads :
    /\ \A k \in 1..Len(tx[c]) :
         (tx[c][k].ser \in timedout) => tx[c][k].res = -ETIMEDOUT
    /\ (c \in Callers /\ pc[c] = "done" /\ Sent(c) \in timedout) => rv[c] = -ETIMEDOUT
    /\ pc[c] # "wait" => mutex # c

\* C4 witness: a request timed out and a later read succeeded with the
\* reply to its own request.
C4_Witness ==
  \E c \in Callers :
    /\ pc[c] = "done" /\ rv[c] = 0
    /\ temp[c] = OwnPayload(c)
    /\ \E n \in timedout : n < Sent(c)

\* C5: every sensor read returns to its caller.
C5_ReadReturns ==
  \A c \in SingleReader : (pc[c] \notin {"idle", "done"}) ~> (pc[c] = "done")

\* C5 witness: a read returned although the device never answered it.
C5_Witness ==
  \E c \in Callers :
    /\ pc[c] = "done" /\ rv[c] = -ETIMEDOUT
    /\ ~ReplyPending(c)
    /\ inq = <<>>

\* C6: in a two-step read the value-read frame is handed to the transport
\* only if the channel-select rmi_send_cmd did not fail.
C6_SelectGuardsRead ==
  \A c \in Callers : Len(tx[c]) = 2 => tx[c][1].res > 0

\* The frame sequence the claim prescribes for each read.
Prescribed(o) ==
  CASE o.type = "in" /\ o.ch = 0    -> << <<3, 136>> >>
    [] o.type = "power" /\ o.ch = 0 -> << <<3, 238>> >>
    [] o.type = "in" /\ o.ch > 0    -> << <<2, 0, o.ch - 1>>, <<3, 139>> >>
    [] o.type = "power" /\ o.ch > 0 -> << <<2, 0, o.ch - 1>>, <<3, 150>> >>
    [] o.type = "curr"              -> << <<2, 0, o.ch>>, <<3, 140>> >>

\* C7: every frame a voltage, power or current read hands to the transport
\* is the next frame of the prescribed sequence.
C7_FrameSequence ==
  \A c \in Callers :
    (pc[c] = "output" /\ op[c].type \in {"in", "power", "curr"}) =>
      /\ Len(tx[c]) < Len(Prescribed(op[c]))
      /\ FrameIs(buffer, Prescribed(op[c])[Len(tx[c]) + 1])

\* C8: when a wait ends with a response whose status byte is not 0x00, the
\* operation returns the mapped error: it neither decodes the payload nor
\* goes on to its next frame.
C8_StatusChecked ==
  [][\A c \in Threads :
       (pc[c] = "wait" /\ pc'[c] # "wait" /\ done > 0 /\ buffer[0] # 0) =>
         (pc'[c] = "done" /\ rv'[c] = ccp_get_errno(buffer[0]))]_vars

\* C9: an operation of which some rmi_send_cmd call failed returns that
\* error.
C9_NoErrorSwallowed ==
  \A c \in Threads :
    pc[c] \in {"done", "register"} =>
      \A k \in 1..Len(tx[c]) : tx[c][k].res < 0 => rv[c] = tx[c][k].res

\* C10: the hwmon device is registered only if the name read succeeded.
C10_AttachFails ==
  hwmon_dev = "registered" => (tx[0] # <<>> /\ tx[0][1].res > 0)

\* the 11-bit mantissa field and the 5-bit exponent field of a word, read as
\* two's complement, the mantissa incremented by one if odd
RefMantissa(w) ==
  LET f == w % 2048
      m == IF f >= 1024 THEN f - 2048 ELSE f
  IN  IF m % 2 = 1 THEN m + 1 ELSE m

RefExponent(w) == LET e == w \div 2048 IN IF e >= 16 THEN e - 32 ELSE e

Abs(x) == IF x < 0 THEN -x ELSE x

\* x / d truncating toward zero, d > 0
DivTrunc(x, d) == IF x < 0 THEN -((-x) \div d) ELSE x \div d

\* does the reference decode of w fit an int?
RefFits(w) ==
  RefExponent(w) < 0 \/ Abs(RefMantissa(w)) * 1000 <= INT_MAX \div (2 ^ RefExponent(w))

\* the reference decode of w, where it fits an int
RefDecode(w) ==
  IF RefExponent(w) >= 0
    THEN RefMantissa(w) * 1000 * (2 ^ RefExponent(w))
    ELSE DivTrunc(RefMantissa(w) * 1000, 2 ^ (-RefExponent(w)))

\* C11: for every 16-bit word get_int_from_uint16_double returns the
\* reference decode (mantissa and exponent in two's complement, the mantissa
\* made even, m*1000*2^e, the division for e < 0 truncating toward zero), and
\* a word whose mantissa field is 1024 decodes to a negative value.
C11_CodecIsReference ==
  fn = "codec" =>
    /\ RefFits(word) /\ result = RefDecode(word)
    /\ word % 2048 = 1024 => result < 0

\* the five outcomes the status bytes map to
StatusOutcome(b) ==
  IF b = 0 THEN "success"
  ELSE IF b = 1 THEN "unsupported"
  ELSE IF b = 16 THEN "invalid argument"
  ELSE IF b \in {17, 18} THEN "no data"
  ELSE "unknown device error"

OutcomeErrno(o) ==
  CASE o = "success"              -> 0
    [] o = "unsupported"          -> -95
    [] o = "invalid argument"     -> -22
    [] o = "no data"              -> -61
    [] o = "unknown device error" -> -5

\* C13: ccp_get_errno maps every byte 0x00..0xFF to the one outcome the
\* status table gives it: 0x00 success, 0x01 unsupported, 0x10 invalid
\* argument, 0x11 and 0x12 no data, every other byte unknown device error.
C13_StatusMappingTotal ==
  fn = "errno" => result = OutcomeErrno(StatusOutcome(word))

\* C13 witness: a byte the table does not list was mapped to the unknown
\* device error.
C13_Witness == fn = "errno" /\ word = 255 /\ result = -EIO

\* the last rmi_send_cmd call of thread c ended with a signalled wait
Answered(c) == tx[c] # <<>> /\ tx[c][Len(tx[c])].res > 0

\* C12: a fan read composes the single frame 0x03 0x90 and returns the two
\* payload bytes of the response combined big-endian (byte 2 high, byte 3
\* low), the byte order of a temperature read.
C12_FanBigEndian ==
  \A c \in Callers :
    (pc[c] = "done" /\ op[c].type = "fan" /\ Answered(c)) =>
      /\ Frames(op[c]) = << <<3, 144, 0, 0>> >>
      /\ Len(tx[c]) = 1
      /\ rv[c] = 0
      /\ val[c] = temp[c][1] * 256 + temp[c][2]
      /\ val[c] = Reading("temp", temp[c][1], temp[c][2])

\* some request is awaiting its reply
AwaitingReply == \E t \in Threads : pc[t] = "wait"

\* the step is an invocation of ccp_raw_event
RawEventInvoked == cbpc = "idle" /\ (Len(inq') < Len(inq) \/ nstale' > nstale)

\* C14: when ccp_raw_event is invoked while no request is awaiting a reply
\* the report is discarded: the handler returns at once and leaves the buffer
\* and the completion as they were.
C14_IdleDiscards ==
  [][(RawEventInvoked /\ ~AwaitingReply) =>
       (cbpc' = "idle" /\ buffer' = buffer /\ done' = done)]_vars

\* C15: the completion is unsignalled when a frame is handed to the
\* transport, and between one transmission and the next complete() is called
\* at most once.
\* A wait that ends with res > 0 has taken a signal, so once the wait for
\* the frame transmitted last has ended that way, that frame has had its
\* signal and a further complete() is a second one.
C15_SignalledOnce ==
  [][/\ \A c \in Threads : (pc[c] = "output" /\ pc'[c] # "output") => done = 0
     /\ (cbpc = "complete" /\ cbpc' = "idle" /\ serial > 0) =>
          ~(\E c \in Threads : Sent(c) = serial /\ Answered(c))]_vars

\* the frame thread c is about to hand to the transport, as it composed it
Composed(c) == Frames(op[c])[fi[c]]

\* C16: every frame handed to the transport is zero-padded: all bytes but
\* the opcode and argument bytes written for the command are zero.
C16_ZeroPadded ==
  \A c \in Threads :
    pc[c] = "output" =>
      \A i \in Idx : i >= Len(Composed(c)) => buffer[i] = 0

\* C17: every frame handed to the transport carries the operation code in
\* byte 0 and the register in byte 1; the name read hands over a frame with
\* byte 0 = 0x03 and byte 1 = 0xFE.
C17_OpcodeThenRegister ==
  \A c \in Threads :
    pc[c] = "output" =>
      /\ buffer[0] \in {2, 3}
      /\ op[c].type = "name" => (buffer[0] = 3 /\ buffer[1] = 254)

\* C18: between the step in which a report's complete() wakes the waiter of
\* a read and the step in which the read takes bytes 2 and 3, the buffer is
\* not modified.
C18_PayloadStable ==
  [][\A c \in Callers :
       (pc[c] = "decode" /\ Answered(c) /\ pc'[c] = "decode") => buffer' = buffer]_vars

\* C19: from the step in which an operation composes a frame to the step
\* that hands the buffer to the transport, the buffer holds that frame.
C19_FrameAsComposed ==
  \A c \in Threads :
    pc[c] \in {"reinit", "output"} => FrameIs(buffer, Composed(c))

\* every rmi_send_cmd call of the read of thread c was transmitted and
\* answered in time
AllAnswered(c) ==
  /\ Len(tx[c]) = Len(Frames(op[c]))
  /\ \A k \in 1..Len(tx[c]) : tx[c][k].ser > 0 /\ tx[c][k].res > 0

\* C20: a voltage, current or power read of which every frame was
\* transmitted and answered in time returns 0 and stores the value decoded
\* from the payload in *val, also when that value is negative.
C20_ReadingNotError ==
  \A c \in Callers :
    (pc[c] = "done" /\ op[c].type \in {"in", "curr", "power"} /\ AllAnswered(c)) =>
      /\ rv[c] = 0
      /\ val[c] = Reading(op[c].type, temp[c][1], temp[c][2])

====
